---------------------------- MODULE Spec2Model ----------------------------
(***************************************************************************)
(* A model of skimage/draw/_random_shapes.py: the three shape fitters, the  *)
(* colour sampler and the placement loop of random_shapes.                  *)
(*                                                                         *)
(* Conventions.  Python tuples are TLA+ tuples, so image[1] is Python's     *)
(* image[0] (rows) and point[2] is Python's point[1] (the column).  Pixel   *)
(* coordinates themselves are 0-based as in the code.  A draw from the      *)
(* random stream is a nondeterministic choice over the values the draw can  *)
(* return.  One action is one pass through a block of random_shapes; a      *)
(* whole placement trial (anchor draw, fitter call, overlap test, commit)   *)
(* is a single action.                                                      *)
(*                                                                         *)
(* Reading of the source.  The three tables at lines 246-260 are read as    *)
(* the dictionaries their names and entries announce (their closing         *)
(* parentheses are commented out), and the scenario identifiers of lines    *)
(* 286 and 326-335 as four distinct constants.  SHAPE_GENERATORS, read at   *)
(* line 343, is bound nowhere in the module: evaluating it raises           *)
(* NameError.  shape_generator is a local of random_shapes, unbound until a *)
(* branch of lines 326-343 assigns it.  ValueError, NameError and           *)
(* UnboundLocalError are not ArithmeticError, so line 353 lets them through *)
(* and they end the call.                                                   *)
(***************************************************************************)
EXTENDS Integers, Sequences, FiniteSets

(***************************************************************************)
(* Bounds of the enumerated inputs.                                         *)
(***************************************************************************)
MaxDim == 2
MaxShapes == 2
MaxTrials == 2
LargeDim == 4

(***************************************************************************)
(* Program constants.                                                       *)
(***************************************************************************)
Background == 255
MaxIntensity == 255

None == "None"
Categories == {"rectangle", "triangle", "circle"}

Min2(a, b) == IF a <= b THEN a ELSE b
Max2(a, b) == IF a >= b THEN a ELSE b
SetMin(S) == CHOOSE m \in S : \A x \in S : m <= x
SetMax(S) == CHOOSE m \in S : \A x \in S : m >= x
Range(s) == {s[i] : i \in DOMAIN s}

(***************************************************************************)
(* The rasterizer (skimage.draw.polygon, skimage.draw.disk) is imported by  *)
(* the module and its code is not part of the sources at hand.  It is       *)
(* modelled from the specification: it returns the pixels the shape covers, *)
(* in the half-open convention under which a polygon with corners           *)
(* (r, c) .. (r + h, c + w) covers h * w pixels and a disk of radius R      *)
(* covers the rows center - R + 1 .. center + R - 1.                        *)
(***************************************************************************)
EdgeCrossed(r, c, i, j, y, x) ==
    /\ \/ (r[i] <= y /\ y < r[j])
       \/ (r[j] <= y /\ y < r[i])
    /\ IF r[j] - r[i] > 0
       THEN (x - c[i]) * (r[j] - r[i]) < (c[j] - c[i]) * (y - r[i])
       ELSE (x - c[i]) * (r[j] - r[i]) > (c[j] - c[i]) * (y - r[i])

point_in_polygon(r, c, y, x) ==
    LET n == Len(r)
        prev(i) == IF i = 1 THEN n ELSE i - 1
        crossings == Cardinality({i \in 1..n : EdgeCrossed(r, c, i, prev(i), y, x)})
    IN  crossings % 2 = 1

draw_polygon(r, c) ==
    {<<y, x>> \in (SetMin(Range(r))..SetMax(Range(r)))
                    \X (SetMin(Range(c))..SetMax(Range(c))) :
        point_in_polygon(r, c, y, x)}

draw_disk(center, radius) ==
    {<<y, x>> \in ((center[1] - radius)..(center[1] + radius))
                    \X ((center[2] - radius)..(center[2] + radius)) :
        (y - center[1]) * (y - center[1]) + (x - center[2]) * (x - center[2])
            < radius * radius}

(***************************************************************************)
(* Outcomes of a fitter call: a proposal, or the exception it raises.       *)
(***************************************************************************)
Fit(indices, label) == [kind |-> "ok", indices |-> indices, label |-> label]
Raise(e) == [kind |-> e, indices |-> {}, label |-> <<>>]

\* random.randint(low, high): low inclusive, high exclusive, both truncated
\* to integers by the caller of this operator.
randint(low, high) == low..(high - 1)

\* The rectangle fitter without the canvas bound on the available extent.
rectangle_mask_ignoring_canvas(point, image, shape) ==
    LET available_width == shape[2]
        available_height == shape[2]
    IN  IF available_width < shape[1] THEN {Raise("ArithmeticError")}
        ELSE IF available_height < shape[1] THEN {Raise("ArithmeticError")}
        ELSE {Fit(draw_polygon(<<point[1], point[1] + r, point[1] + r, point[1]>>,
                               <<point[2], point[2], point[2] + c, point[2] + c>>),
                  <<"rectangle", <<<<point[1], point[1] + r>>,
                                   <<point[2], point[2] + c>>>>>>) :
                r \in randint(shape[1], available_height + 1),
                c \in randint(shape[1], available_width + 1)}

\* A rectangle fitter that measures each remaining extent on the other axis.
rectangle_mask_axes_swapped(point, image, shape) ==
    LET available_width == Min2(image[1] - point[1], shape[2])
        available_height == Min2(image[2] - point[2], shape[2])
    IN  IF available_width < shape[1] THEN {Raise("ArithmeticError")}
        ELSE IF available_height < shape[1] THEN {Raise("ArithmeticError")}
        ELSE {Fit(draw_polygon(<<point[1], point[1] + r, point[1] + r, point[1]>>,
                               <<point[2], point[2], point[2] + c, point[2] + c>>),
                  <<"rectangle", <<<<point[1], point[1] + r>>,
                                   <<point[2], point[2] + c>>>>>>) :
                r \in randint(shape[1], available_height + 1),
                c \in randint(shape[1], available_width + 1)}

_generate_rectangle_mask(point, image, shape) ==
    LET available_width == Min2(image[2] - point[2], shape[2])
        available_height == Min2(image[1] - point[1], shape[2])
    IN  IF available_width < shape[1] THEN {Raise("ArithmeticError")}
        ELSE IF available_height < shape[1] THEN {Raise("ArithmeticError")}
        ELSE {Fit(draw_polygon(<<point[1], point[1] + r, point[1] + r, point[1]>>,
                               <<point[2], point[2], point[2] + c, point[2] + c>>),
                  <<"rectangle", <<<<point[1], point[1] + r>>,
                                   <<point[2], point[2] + c>>>>>>) :
                r \in randint(shape[1], available_height + 1),
                c \in randint(shape[1], available_width + 1)}

\* Radii are halves of sizes: twice_* holds twice the float of the code, so
\* twice_available_radius < twice_min_radius is the code's float comparison.
\* randint truncates its float arguments to integers.
_generate_circle_mask(point, image, shape) ==
    IF shape[1] = 1 \/ shape[2] = 1 THEN {Raise("ValueError_circle")}
    ELSE
    LET twice_min_radius == shape[1]
        twice_max_radius == shape[2]
        left == point[2]
        right == image[2] - point[2]
        top == point[1]
        bottom == image[1] - point[1]
        twice_available_radius ==
            SetMin({2 * left, 2 * right, 2 * top, 2 * bottom, twice_max_radius})
    IN  IF twice_available_radius < twice_min_radius
        THEN {Raise("ArithmeticError")}
        ELSE {Fit(draw_disk(<<point[1], point[2]>>, radius),
                  <<"circle", <<<<point[1] - radius + 1, point[1] + radius>>,
                                <<point[2] - radius + 1, point[2] + radius>>>>>>) :
                radius \in randint(twice_min_radius \div 2,
                                   (twice_available_radius + 2) \div 2)}

\* int(np.ceil(np.sqrt(3 / 4.0) * side)): the least h with h >= sqrt(3/4) * side,
\* that is with 4 h^2 >= 3 side^2.
triangle_height(side) ==
    CHOOSE h \in 0..side :
        /\ 4 * h * h >= 3 * side * side
        /\ \A g \in 0..(h - 1) : 4 * g * g < 3 * side * side

_generate_triangle_mask(point, image, shape) ==
    IF shape[1] = 1 \/ shape[2] = 1 THEN {Raise("ValueError_triangle")}
    ELSE
    LET available_side == SetMin({image[2] - point[2], point[1] + 1, shape[2]})
    IN  IF available_side < shape[1] THEN {Raise("ArithmeticError")}
        ELSE {Fit(draw_polygon(<<point[1], point[1] - triangle_height(side), point[1]>>,
                               <<point[2], point[2] + (side \div 2), point[2] + side>>),
                  <<"triangle", <<<<point[1] - triangle_height(side), point[1]>>,
                                  <<point[2], point[2] + side>>>>>>) :
                side \in randint(shape[1], available_side + 1)}

\* The fitter a category name stands for.
shape_generator(category, point, image, shape) ==
    CASE category = "rectangle" -> _generate_rectangle_mask(point, image, shape)
      [] category = "triangle" -> _generate_triangle_mask(point, image, shape)
      [] category = "circle" -> _generate_circle_mask(point, image, shape)

SHAPE_CHOICES_ALL == {"rectangle", "triangle", "circle"}
SHAPE_CHOICES_R_T == {"rectangle", "triangle"}
SHAPE_CHOICES_C == {"circle"}

Scenarios == {"SHAPE-GENERATOR_ALL_HALO", "SHAPE-GENERATOR_ALL_CORE",
              "SHAPE-GENERATOR_R_T", "SHAPE-GENERATOR_C"}

\* A selector that draws from all three categories whatever the scenario.
ScenarioChoicesUnrestricted(s) == SHAPE_CHOICES_ALL

\* The categories random.choice can return under a recognized scenario.
ScenarioChoices(s) ==
    CASE s = "SHAPE-GENERATOR_ALL_HALO" -> SHAPE_CHOICES_ALL
      [] s = "SHAPE-GENERATOR_ALL_CORE" -> SHAPE_CHOICES_ALL
      [] s = "SHAPE-GENERATOR_R_T" -> SHAPE_CHOICES_R_T
      [] s = "SHAPE-GENERATOR_C" -> SHAPE_CHOICES_C

\* The colour tables the sampler can return: one row per shape, one column
\* per channel, channel ch drawn from its own closed interval.
_generate_random_colors(num_colors, channels, ranges) ==
    LET per_channel ==
            IF channels = 1 THEN <<ranges>>
            ELSE IF Len(ranges) = 1 THEN [ch \in 1..channels |-> ranges[1]]
            ELSE ranges
        lows == {per_channel[ch][1] : ch \in 1..channels}
        highs == {per_channel[ch][2] : ch \in 1..channels}
        rows == {row \in [1..channels -> SetMin(lows)..SetMax(highs)] :
                    \A ch \in 1..channels :
                        row[ch] \in randint(per_channel[ch][1], per_channel[ch][2] + 1)}
    IN  [1..num_colors -> rows]

(***************************************************************************)
(* State.  The arguments of the call are fixed by Init; max_size and        *)
(* num_channels are rebound by the function's prologue.                     *)
(***************************************************************************)
VARIABLES
    image_shape,      \* <<rows, cols>>
    min_shapes, max_shapes,
    min_size, max_size,        \* max_size = 0 stands for None
    multichannel, num_channels,
    user_shape,       \* the shape argument: None or a category name
    scenario,
    intensity_range,
    allow_overlap,
    num_trials,
    pc,               \* the block of random_shapes about to run
    err,              \* the exception that ended the run, or None
    image,            \* pixel -> colour row
    filled,           \* the pixels that are True in the mask
    labels,
    num_shapes,
    colors,
    shape_idx,
    category,         \* what shape_generator is bound to ("unbound" before any binding)
    trial,            \* trials of the current slot used so far
    warnings,         \* calls of warn() so far
    printed,          \* calls of print("Error in the script") so far
    drawn,            \* the kinds of random draws made so far
    placed,           \* history: the committed proposals, <<slot, indices, label>>
    trials_total,     \* history: iterations of the trial loop started so far
    result            \* what the call returned

args == <<image_shape, min_shapes, max_shapes, min_size, multichannel, user_shape,
          scenario, intensity_range, allow_overlap, num_trials>>
canvas == <<image, filled, labels, placed>>
vars == <<args, max_size, num_channels, pc, err, canvas, num_shapes, colors,
          shape_idx, category, trial, warnings, printed, drawn, trials_total,
          result>>

rows == image_shape[1]
cols == image_shape[2]
Pixels == (0..(rows - 1)) \X (0..(cols - 1))

(***************************************************************************)
(* The enumerated calls.  GeometryCall varies every argument the placement  *)
(* loop reads, on small canvases, with the remaining arguments at one valid *)
(* value.  LargeCanvasCall is a call for a single shape with a single trial *)
(* on canvases large enough for every fitter to have a choice of sizes.     *)
(* PinnedCall, ChannelCall and IntensityCall vary one of the remaining      *)
(* arguments each.  intensity_range = None (the interval 0..254) is left    *)
(* out: its 255 colours per channel are beyond enumeration.                 *)
(***************************************************************************)
ImageShapes == {<<MaxDim, MaxDim>>, <<MaxDim, MaxDim - 1>>, <<MaxDim - 1, MaxDim>>}
LargeShapes == {<<LargeDim, LargeDim>>, <<LargeDim, LargeDim - 1>>,
                <<LargeDim - 1, LargeDim>>}
TrialCounts == {0, MaxTrials}

GeometryCall ==
    /\ image_shape \in ImageShapes
    /\ min_shapes = 0
    /\ max_shapes = MaxShapes
    /\ min_size \in 1..(MaxDim + 1)
    /\ max_size \in 0..MaxDim
    /\ allow_overlap \in BOOLEAN
    /\ num_trials \in TrialCounts
    /\ scenario \in {"SHAPE-GENERATOR_ALL_HALO", "SHAPE-GENERATOR_R_T",
                     "SHAPE-GENERATOR_C", "other"}
    /\ user_shape = None
    /\ multichannel = TRUE
    /\ num_channels = 1
    /\ intensity_range = <<1, 1>>

LargeCanvasCall ==
    /\ image_shape \in LargeShapes
    /\ min_shapes = 1
    /\ max_shapes = 1
    /\ min_size \in 1..(LargeDim + 1)
    /\ max_size \in 0..LargeDim
    /\ allow_overlap = FALSE
    /\ num_trials = 1
    /\ scenario \in {"SHAPE-GENERATOR_ALL_CORE", "SHAPE-GENERATOR_R_T",
                     "SHAPE-GENERATOR_C"}
    /\ user_shape = None
    /\ multichannel = TRUE
    /\ num_channels = 1
    /\ intensity_range = <<1, 1>>

DefaultGeometry ==
    /\ image_shape = <<MaxDim, MaxDim>>
    /\ min_shapes = 1
    /\ max_shapes = MaxShapes
    /\ min_size = 2
    /\ max_size = 0
    /\ num_trials = MaxTrials
    /\ allow_overlap \in BOOLEAN

PinnedCall ==
    /\ DefaultGeometry
    /\ scenario \in Scenarios \cup {"other"}
    /\ user_shape \in Categories
    /\ multichannel = TRUE
    /\ num_channels = 1
    /\ intensity_range = <<1, 2>>

ChannelCall ==
    /\ DefaultGeometry
    /\ scenario = "SHAPE-GENERATOR_ALL_HALO"
    /\ user_shape = None
    /\ \/ /\ multichannel \in BOOLEAN
          /\ num_channels = IF multichannel THEN 1 ELSE 3
          /\ intensity_range = <<1, 2>>
       \/ /\ multichannel = TRUE
          /\ num_channels = 2
          /\ intensity_range \in {<<<<1, 1>>>>, <<<<1, 1>>, <<2, 2>>>>}

IntensityCall ==
    /\ DefaultGeometry
    /\ scenario = "SHAPE-GENERATOR_ALL_HALO"
    /\ user_shape = None
    /\ \/ /\ multichannel = TRUE
          /\ num_channels = 1
          /\ intensity_range \in {<<0, MaxIntensity + 1>>, <<0 - 1, 2>>}
       \/ /\ multichannel = TRUE
          /\ num_channels = 2
          /\ intensity_range = <<<<1, 2>>, <<0, MaxIntensity + 1>>>>

\* BudgetCall varies what the number of trials depends on: the trial and
\* shape counts and the sizes, with collisions rejected.  A min_size of one
\* comes with a max_size of one.
BudgetCall ==
    /\ image_shape = <<MaxDim, MaxDim>>
    /\ min_shapes = 0
    /\ max_shapes = MaxShapes
    /\ min_size \in 1..MaxDim
    /\ max_size \in {0, 1}
    /\ min_size = 1 => max_size = 1
    /\ allow_overlap = FALSE
    /\ num_trials \in TrialCounts
    /\ scenario \in {"SHAPE-GENERATOR_R_T", "other"}
    /\ user_shape = None
    /\ multichannel = TRUE
    /\ num_channels = 1
    /\ intensity_range = <<1, 1>>

\* The state on entry to random_shapes, whatever the call.
Start ==
    /\ pc = "validate"
    /\ err = None
    /\ image = <<>>
    /\ filled = {}
    /\ labels = <<>>
    /\ num_shapes = 0
    /\ colors = <<>>
    /\ shape_idx = 0
    /\ category = "unbound"
    /\ trial = 0
    /\ warnings = 0
    /\ printed = 0
    /\ drawn = {}
    /\ placed = <<>>
    /\ trials_total = 0
    /\ result = <<>>

Init ==
    /\ \/ GeometryCall
       \/ LargeCanvasCall
       \/ PinnedCall
       \/ ChannelCall
       \/ IntensityCall
    /\ Start

(***************************************************************************)
(* Lines 294-309: the prologue.  min_size is checked first, then max_size   *)
(* and num_channels are rebound, then the intensity bounds are checked.     *)
(***************************************************************************)
\* The size check with >= for >.
MinSizeAtLeastDimension == min_size >= image_shape[1] \/ min_size >= image_shape[2]

MinSizeTooLarge == min_size > image_shape[1] \/ min_size > image_shape[2]

IntensityPairs(channels) ==
    IF channels = 1 THEN {intensity_range} ELSE Range(intensity_range)

IntensityOutOfRange(channels) ==
    \E pair \in IntensityPairs(channels) : \E i \in 1..2 :
        ~(0 <= pair[i] /\ pair[i] <= MaxIntensity)

Abort(e) ==
    /\ err' = e
    /\ pc' = "raised"

Validate ==
    /\ pc = "validate"
    /\ LET channels == IF ~multichannel THEN 1 ELSE num_channels
       IN  \/ /\ MinSizeTooLarge
              /\ Abort("ValueError_min_size")
              /\ UNCHANGED <<max_size, num_channels>>
           \/ /\ ~MinSizeTooLarge
              /\ max_size' = IF max_size # 0 THEN max_size ELSE Max2(rows, cols)
              /\ num_channels' = channels
              /\ IF IntensityOutOfRange(channels)
                 THEN Abort("ValueError_intensity")
                 ELSE pc' = "setup" /\ UNCHANGED err
    /\ UNCHANGED <<args, trials_total, canvas, num_shapes, colors, shape_idx,
                   category, trial, warnings, printed, drawn, result>>

(***************************************************************************)
(* Lines 311-319: the canvas, the mask, the label list, the shape count.    *)
(***************************************************************************)
Setup ==
    /\ pc = "setup"
    /\ image' = [p \in Pixels |-> [ch \in 1..num_channels |-> Background]]
    /\ filled' = {}
    /\ labels' = <<>>
    /\ num_shapes' \in randint(min_shapes, max_shapes + 1)
    /\ drawn' = drawn \cup {"count"}
    /\ pc' = "colors"
    /\ UNCHANGED <<args, trials_total, max_size, num_channels, err, placed,
                   colors, shape_idx, category, trial, warnings, printed, result>>

(***************************************************************************)
(* Lines 321-322: all colours are drawn before the first slot.              *)
(***************************************************************************)
SampleColors ==
    /\ pc = "colors"
    /\ colors' \in _generate_random_colors(num_shapes, num_channels, intensity_range)
    /\ drawn' = drawn \cup {"colors"}
    /\ pc' = "slot"
    /\ UNCHANGED <<args, trials_total, max_size, num_channels, err, canvas,
                   num_shapes, shape_idx, category, trial, warnings, printed,
                   result>>

(***************************************************************************)
(* Lines 323-344: the head of one pass of the slot loop.  With no pinned    *)
(* category a recognized scenario draws one; any other scenario prints and  *)
(* leaves shape_generator as it was.  With a pinned category line 343 reads *)
(* SHAPE_GENERATORS, a name the module never binds.                         *)
(***************************************************************************)
SelectGenerator ==
    /\ pc = "slot"
    /\ shape_idx < num_shapes
    /\ \/ /\ user_shape = None
          /\ scenario \in Scenarios
          /\ category' \in ScenarioChoices(scenario)
          /\ drawn' = drawn \cup {"category"}
          /\ trial' = 0
          /\ pc' = "trial"
          /\ UNCHANGED <<err, printed>>
       \/ /\ user_shape = None
          /\ scenario \notin Scenarios
          /\ printed' = printed + 1
          /\ trial' = 0
          /\ pc' = "trial"
          /\ UNCHANGED <<err, category, drawn>>
       \/ /\ user_shape # None
          /\ Abort("NameError")
          /\ UNCHANGED <<category, drawn, trial, printed>>
    /\ UNCHANGED <<args, trials_total, max_size, num_channels, canvas,
                   num_shapes, colors, shape_idx, warnings, result>>

(***************************************************************************)
(* Lines 345-361: one trial.  ArithmeticError is the only exception the     *)
(* loop catches.                                                            *)
(***************************************************************************)
\* The acceptance test without the look at the mask.
AcceptsAlways(indices) == TRUE

Accepts(indices) == allow_overlap \/ (indices \cap filled = {})

\* A write that spares the pixels an earlier shape claimed.
PaintUnclaimed(indices, color) ==
    [p \in DOMAIN image |->
        IF p \in indices /\ p \notin filled THEN color ELSE image[p]]

Paint(indices, color) ==
    [p \in DOMAIN image |-> IF p \in indices THEN color ELSE image[p]]

\* A commit without the break: the slot goes on to its next trial.
CommitWithoutBreak(out) ==
    /\ image' = [p \in DOMAIN image |->
                    IF p \in out.indices THEN colors[shape_idx + 1] ELSE image[p]]
    /\ filled' = filled \cup out.indices
    /\ labels' = Append(labels, out.label)
    /\ placed' = Append(placed, <<shape_idx, out.indices, out.label>>)
    /\ trial' = trial + 1
    /\ UNCHANGED <<shape_idx, pc, err>>

\* A commit that keeps only the new shape in the mask and puts its label
\* first.
CommitReplacingMask(out) ==
    /\ image' = Paint(out.indices, colors[shape_idx + 1])
    /\ filled' = out.indices
    /\ labels' = <<out.label>> \o labels
    /\ placed' = Append(placed, <<shape_idx, out.indices, out.label>>)
    /\ shape_idx' = shape_idx + 1
    /\ trial' = 0
    /\ pc' = "slot"
    /\ UNCHANGED err

\* A commit that appends no label.
CommitWithoutLabel(out) ==
    /\ image' = Paint(out.indices, colors[shape_idx + 1])
    /\ filled' = filled \cup out.indices
    /\ labels' = labels
    /\ placed' = Append(placed, <<shape_idx, out.indices, out.label>>)
    /\ shape_idx' = shape_idx + 1
    /\ trial' = 0
    /\ pc' = "slot"
    /\ UNCHANGED err

\* A commit that does not mark the mask.
CommitWithoutMask(out) ==
    /\ image' = Paint(out.indices, colors[shape_idx + 1])
    /\ filled' = filled
    /\ labels' = Append(labels, out.label)
    /\ placed' = Append(placed, <<shape_idx, out.indices, out.label>>)
    /\ shape_idx' = shape_idx + 1
    /\ trial' = 0
    /\ pc' = "slot"
    /\ UNCHANGED err

Commit(out) ==
    /\ image' = Paint(out.indices, colors[shape_idx + 1])
    /\ filled' = filled \cup out.indices
    /\ labels' = Append(labels, out.label)
    /\ placed' = Append(placed, <<shape_idx, out.indices, out.label>>)
    /\ shape_idx' = shape_idx + 1
    /\ trial' = 0
    /\ pc' = "slot"
    /\ UNCHANGED err

\* A rejection that wipes the mask.
RejectClearingMask ==
    /\ trial' = trial + 1
    /\ filled' = {}
    /\ UNCHANGED <<image, labels, placed, shape_idx, pc, err>>

\* A rejection that does not use up one of the slot's trials.
RejectWithoutCounting ==
    /\ UNCHANGED <<canvas, shape_idx, pc, err, trial>>

Reject ==
    /\ trial' = trial + 1
    /\ UNCHANGED <<canvas, shape_idx, pc, err>>

TrialBody ==
    /\ pc = "trial"
    /\ trial < num_trials
    /\ \E column \in randint(0, cols), row \in randint(0, rows) :
        IF category = "unbound"
        THEN /\ Abort("UnboundLocalError")
             /\ drawn' = drawn \cup {"anchor"}
             /\ UNCHANGED <<canvas, shape_idx, trial>>
        ELSE \E out \in shape_generator(category, <<row, column>>,
                                        <<rows, cols, num_channels>>,
                                        <<min_size, max_size>>) :
                \/ /\ out.kind \in {"ValueError_circle", "ValueError_triangle"}
                   /\ Abort(out.kind)
                   /\ drawn' = drawn \cup {"anchor"}
                   /\ UNCHANGED <<canvas, shape_idx, trial>>
                \/ /\ out.kind = "ArithmeticError"
                   /\ Reject
                   /\ drawn' = drawn \cup {"anchor"}
                \/ /\ out.kind = "ok"
                   /\ drawn' = drawn \cup {"anchor", "size"}
                   /\ IF Accepts(out.indices) THEN Commit(out) ELSE Reject
    /\ UNCHANGED <<args, max_size, num_channels, num_shapes, colors, category,
                   warnings, printed, result>>

\* One iteration of the trial loop, with and without the count of the
\* iterations started: the count is a history of the run that only
\* CountedSpec keeps.
Trial == TrialBody /\ UNCHANGED trials_total

CountedTrial == TrialBody /\ trials_total' = trials_total + 1

(***************************************************************************)
(* Lines 362-364: the loop's else branch, reached when no trial broke out.  *)
(***************************************************************************)
\* An exhausted slot that raises instead of warning.
ExhaustedRaises ==
    /\ pc = "trial"
    /\ trial = num_trials
    /\ Abort("PlacementExhausted")
    /\ UNCHANGED <<args, trials_total, max_size, num_channels, canvas,
                   num_shapes, colors, shape_idx, category, trial, warnings,
                   printed, drawn, result>>

\* An exhausted slot that issues no warning.
ExhaustedSilently ==
    /\ pc = "trial"
    /\ trial = num_trials
    /\ shape_idx' = shape_idx + 1
    /\ trial' = 0
    /\ pc' = "slot"
    /\ UNCHANGED <<args, trials_total, max_size, num_channels, err, canvas,
                   num_shapes, colors, category, warnings, printed, drawn,
                   result>>

Exhausted ==
    /\ pc = "trial"
    /\ trial = num_trials
    /\ warnings' = warnings + 1
    /\ shape_idx' = shape_idx + 1
    /\ trial' = 0
    /\ pc' = "slot"
    /\ UNCHANGED <<args, trials_total, max_size, num_channels, err, canvas,
                   num_shapes, colors, category, printed, drawn, result>>

(***************************************************************************)
(* Lines 366-368: the channel axis is dropped for single-channel output.    *)
(***************************************************************************)
Squeeze(img) == [p \in DOMAIN img |-> img[p][1]]

Return ==
    /\ pc = "slot"
    /\ shape_idx = num_shapes
    /\ result' = <<IF ~multichannel THEN Squeeze(image) ELSE image, labels>>
    /\ pc' = "done"
    /\ UNCHANGED <<args, trials_total, max_size, num_channels, err, canvas,
                   num_shapes, colors, shape_idx, category, trial, warnings,
                   printed, drawn>>

Next ==
    \/ Validate
    \/ Setup
    \/ SampleColors
    \/ SelectGenerator
    \/ Trial
    \/ Exhausted
    \/ Return

Spec == Init /\ [][Next]_vars

(***************************************************************************)
(* The same run with its trial-loop iterations counted, over the calls the  *)
(* trial budget depends on.  The call runs to its end once started: no step *)
(* of it waits on anything, hence the weak fairness of the next-state       *)
(* relation.                                                                *)
(***************************************************************************)
CountedInit ==
    /\ \/ BudgetCall
       \/ PinnedCall
       \/ IntensityCall
    /\ Start

CountedNext ==
    \/ Validate
    \/ Setup
    \/ SampleColors
    \/ SelectGenerator
    \/ CountedTrial
    \/ Exhausted
    \/ Return

CountedSpec == CountedInit /\ [][CountedNext]_vars /\ WF_vars(CountedNext)

(***************************************************************************)
(* Properties.                                                              *)
(***************************************************************************)
Committed == 1..Len(placed)
SlotOf(i) == placed[i][1]
PixelSet(i) == placed[i][2]
LabelOf(i) == placed[i][3]
BoxRows(label) == label[2][1]
BoxCols(label) == label[2][2]
MinSizeArgumentValid == ~(min_size > rows \/ min_size > cols)

\* C1: with allow_overlap = False the pixel sets of any two distinct
\* committed shapes are disjoint.
C1_CommittedShapesDisjoint ==
    ~allow_overlap =>
        \A i, j \in Committed : i # j => PixelSet(i) \cap PixelSet(j) = {}

C1_Witness ==
    /\ ~allow_overlap
    /\ Len(placed) >= 2
    /\ \E i, j \in Committed : LabelOf(i)[1] # LabelOf(j)[1]

\* C2: with min_size >= 2 every committed label's bounding box satisfies
\* 0 <= row_min <= row_max <= rows and 0 <= col_min <= col_max <= cols.
C2_BoundingBoxInsideCanvas ==
    min_size >= 2 =>
        \A i \in Committed :
            /\ 0 <= BoxRows(LabelOf(i))[1]
            /\ BoxRows(LabelOf(i))[1] <= BoxRows(LabelOf(i))[2]
            /\ BoxRows(LabelOf(i))[2] <= rows
            /\ 0 <= BoxCols(LabelOf(i))[1]
            /\ BoxCols(LabelOf(i))[1] <= BoxCols(LabelOf(i))[2]
            /\ BoxCols(LabelOf(i))[2] <= cols

\* C3: every pixel (r, c) of every committed shape satisfies 0 <= r < rows
\* and 0 <= c < cols.
C3_PixelsInsideCanvas ==
    \A i \in Committed : \A p \in PixelSet(i) :
        /\ 0 <= p[1] /\ p[1] < rows
        /\ 0 <= p[2] /\ p[2] < cols

\* A committed shape that reaches the last row and the last column.
C3_Witness ==
    \E i \in Committed :
        /\ \E p \in PixelSet(i) : p[1] = rows - 1
        /\ \E p \in PixelSet(i) : p[2] = cols - 1
        /\ Cardinality(PixelSet(i)) >= 4

\* C4: the number of labels never exceeds the number of slots started, the
\* drawn shape count lies in min_shapes..max_shapes, and a returned run has
\* at most that many labels.
SlotsStarted == IF pc = "trial" THEN shape_idx + 1 ELSE shape_idx

C4_LabelsBoundedBySlots ==
    /\ Len(labels) <= SlotsStarted
    /\ pc \in {"colors", "slot", "trial", "done"} =>
            /\ min_shapes <= num_shapes
            /\ num_shapes <= max_shapes
            /\ SlotsStarted <= num_shapes
    /\ pc = "done" => Len(result[2]) <= num_shapes

C4_Witness ==
    /\ pc = "done"
    /\ Len(result[2]) >= 1
    /\ Len(result[2]) < num_shapes

\* C5 as stated: in the returned image every pixel of every committed shape
\* holds the colour row of that shape's slot, with and without overlap.
ReturnedRow(p) == IF ~multichannel THEN <<result[1][p]>> ELSE result[1][p]

C5_EveryShapeKeepsItsColor ==
    pc = "done" =>
        \A i \in Committed : \A p \in PixelSet(i) :
            ReturnedRow(p) = colors[SlotOf(i) + 1]

\* C5 as amended: in the returned image every pixel of a committed shape
\* that no later committed shape covers holds the colour row of that
\* shape's slot; with allow_overlap = False that is every pixel of it.
CoveredLater(i) == UNION {PixelSet(j) : j \in {k \in Committed : k > i}}

C5_UncoveredPixelsKeepColor ==
    pc = "done" =>
        /\ \A i \in Committed : \A p \in PixelSet(i) \ CoveredLater(i) :
                ReturnedRow(p) = colors[SlotOf(i) + 1]
        /\ ~allow_overlap => \A i \in Committed : CoveredLater(i) \cap PixelSet(i) = {}

\* A returned image in which a later shape of another colour covers part,
\* and not all, of an earlier one.
C5_Witness ==
    /\ pc = "done"
    /\ \E i, j \in Committed :
        /\ i < j
        /\ PixelSet(i) \cap PixelSet(j) # {}
        /\ PixelSet(i) \ PixelSet(j) # {}
        /\ colors[SlotOf(i) + 1] # colors[SlotOf(j) + 1]

\* C7: the run ends with the min_size error exactly when min_size > rows or
\* min_size > cols; min_size equal to the smaller dimension does not raise.
C7_MinSizeErrorIffTooLarge ==
    pc # "validate" =>
        ((err = "ValueError_min_size") <=> (min_size > rows \/ min_size > cols))

C7_Witness ==
    /\ min_size = Min2(rows, cols)
    /\ pc = "done"
    /\ Len(result[2]) >= 1

\* C8: the step that follows a slot's last rejected trial issues one
\* warning, raises nothing, changes neither canvas, mask nor labels and
\* passes to the next slot; a run that returns has been through every slot
\* and returns the labels the other slots committed.
C8_ExhaustionIsNotFatal ==
    /\ [][(pc = "trial" /\ trial = num_trials) =>
            /\ warnings' = warnings + 1
            /\ err' = None
            /\ pc' = "slot"
            /\ shape_idx' = shape_idx + 1
            /\ UNCHANGED <<image, filled, labels>>]_vars
    /\ [](pc = "done" => shape_idx = num_shapes /\ result[2] = labels)

\* A returned run whose slot 0 was exhausted after at least one trial and
\* whose slot 1 committed a shape.
C8_Witness ==
    /\ pc = "done"
    /\ num_trials >= 1
    /\ warnings >= 1
    /\ Len(placed) >= 1
    /\ SlotOf(1) = 1

\* C9: with no pinned category and an unrecognized scenario the run fails
\* before any slot is processed and returns nothing.
C9_UnknownScenarioFailsFast ==
    (user_shape = None /\ scenario \notin Scenarios) =>
        /\ pc \notin {"trial", "done"}
        /\ shape_idx = 0
        /\ printed = 0

\* C10: with min_size = 1 or max_size = 1, and circle or triangle among the
\* categories the scenario can draw, the run fails before any random draw.
C10_DegenerateSizeFailsBeforeDraws ==
    (/\ user_shape = None
     /\ scenario \in Scenarios
     /\ (ScenarioChoices(scenario) \cap {"circle", "triangle"}) # {}
     /\ MinSizeArgumentValid
     /\ (min_size = 1 \/ max_size = 1)) =>
        /\ drawn = {}
        /\ pc # "done"

\* C11: with a pinned category every slot that is started uses that
\* category's fitter, without a category draw, and every label has it.
C11_PinnedCategoryUsed ==
    user_shape # None =>
        /\ "category" \notin drawn
        /\ \A i \in 1..Len(labels) : labels[i][1] = user_shape
        /\ (/\ err \notin {"ValueError_min_size", "ValueError_intensity"}
            /\ pc \in {"trial", "raised", "done"}
            /\ num_shapes >= 1) => category = user_shape

\* C12: with no pinned category every label's category is one the scenario
\* exposes: circle under the circle-only scenario, rectangle or triangle
\* under the two-category scenario.
C12_LabelsWithinScenario ==
    (user_shape = None /\ scenario \in Scenarios) =>
        \A i \in 1..Len(labels) :
            /\ scenario = "SHAPE-GENERATOR_C" => labels[i][1] = "circle"
            /\ scenario = "SHAPE-GENERATOR_R_T" =>
                    labels[i][1] \in {"rectangle", "triangle"}
            /\ labels[i][1] \in {"rectangle", "triangle", "circle"}

C12_Witness ==
    /\ user_shape = None
    /\ scenario = "SHAPE-GENERATOR_C"
    /\ pc = "done"
    /\ Len(result[2]) >= 1

\* C13: every committed rectangle anchored at (r, c) has height
\* row_max - r and width col_max - c, each at least min_size and at most
\* the lesser of max_size and the canvas extent remaining from the anchor
\* (so exactly s when min_size = max_size = s); and at every anchor the
\* rectangle fitter fails as geometry-infeasible exactly when one of the two
\* available extents is below min_size.
RectangleExtentsInRange(i) ==
    LET r == BoxRows(LabelOf(i))[1]
        c == BoxCols(LabelOf(i))[1]
        height == BoxRows(LabelOf(i))[2] - r
        width == BoxCols(LabelOf(i))[2] - c
    IN  /\ min_size <= height /\ height <= Min2(max_size, rows - r)
        /\ min_size <= width /\ width <= Min2(max_size, cols - c)
        /\ (min_size = max_size) => (height = min_size /\ width = min_size)

RectangleFailsIffNoRoom(point) ==
    LET outs == _generate_rectangle_mask(point, <<rows, cols, num_channels>>,
                                         <<min_size, max_size>>)
        no_room == \/ Min2(cols - point[2], max_size) < min_size
                   \/ Min2(rows - point[1], max_size) < min_size
    IN  /\ no_room => outs = {Raise("ArithmeticError")}
        /\ ~no_room => /\ outs # {}
                       /\ \A out \in outs : out.kind = "ok"

C13_RectangleExtents ==
    /\ \A i \in Committed :
            LabelOf(i)[1] = "rectangle" => RectangleExtentsInRange(i)
    /\ pc \in {"setup", "trial"} => \A point \in Pixels : RectangleFailsIffNoRoom(point)

C13_Witness ==
    /\ pc = "done"
    /\ min_size = max_size
    /\ \E i \in Committed : LabelOf(i)[1] = "rectangle"
    /\ \E point \in Pixels :
            _generate_rectangle_mask(point, <<rows, cols, num_channels>>,
                                     <<min_size, max_size>>)
                = {Raise("ArithmeticError")}

\* C14: every committed circle has a radius of at least min_size / 2 and at
\* most the least of the four distances from its centre to the canvas edges
\* and max_size / 2, for odd and even min_size alike.  The label of a circle
\* centred at (r, c) is ((r - radius + 1, r + radius), (c - radius + 1,
\* c + radius)), so radius and centre are read back from it.
CircleRadius(label) == (BoxRows(label)[2] - BoxRows(label)[1] + 1) \div 2

CircleCentre(label) ==
    <<BoxRows(label)[2] - CircleRadius(label), BoxCols(label)[2] - CircleRadius(label)>>

C14_CircleRadiusInRange ==
    \A i \in Committed :
        LabelOf(i)[1] = "circle" =>
            LET radius == CircleRadius(LabelOf(i))
                centre == CircleCentre(LabelOf(i))
            IN  /\ min_size <= 2 * radius
                /\ radius <= SetMin({centre[2], cols - centre[2],
                                     centre[1], rows - centre[1]})
                /\ 2 * radius <= max_size

\* C15: every run terminates (returns or raises); no slot uses more than
\* num_trials trials, and the trials of a whole run number at most
\* num_trials times the shape count drawn.
C15_TerminatesWithinTrialBudget ==
    /\ <>(pc \in {"done", "raised"})
    /\ [](trial <= num_trials)
    /\ [](trials_total <= num_trials * num_shapes)

C15_Witness ==
    /\ pc = "done"
    /\ num_shapes = MaxShapes
    /\ num_trials = MaxTrials
    /\ trials_total = num_trials * num_shapes

\* C16: across every step the mask only grows (the old mask is a subset of
\* the new one) and the label list before the step is a prefix of the label
\* list after it.
IsPrefix(s, t) == Len(s) <= Len(t) /\ SubSeq(t, 1, Len(s)) = s

C16_MaskAndLabelsOnlyGrow ==
    [][filled \subseteq filled' /\ IsPrefix(labels, labels')]_vars

\* Two shapes have been committed one after the other.
C16_Witness ==
    /\ Len(labels) = 2
    /\ PixelSet(1) # {}
    /\ PixelSet(2) \ PixelSet(1) # {}

\* C17: the step in which a trial is accepted writes the slot's colour over
\* the proposal's pixels, marks them in the mask and appends the label, all
\* at once, and passes to the next slot: no further trial is run for the
\* slot, and each slot commits at most one shape.
Accepted == Len(placed') > Len(placed)

C17_FirstAcceptedTrialWins ==
    /\ [][Accepted =>
            LET new == placed'[Len(placed')]
            IN  /\ placed' = Append(placed, new)
                /\ new[1] = shape_idx
                /\ pc = "trial"
                /\ image' = [p \in DOMAIN image |->
                                IF p \in new[2] THEN colors[shape_idx + 1]
                                ELSE image[p]]
                /\ filled' = filled \cup new[2]
                /\ labels' = Append(labels, new[3])
                /\ pc' = "slot"
                /\ shape_idx' = shape_idx + 1]_vars
    /\ [](\A i, j \in Committed : i < j => SlotOf(i) < SlotOf(j))
    /\ [](pc = "trial" => \A i \in Committed : SlotOf(i) < shape_idx)

\* A slot committed on its second trial, after a slot that committed too.
C17_Witness ==
    /\ pc = "slot"
    /\ Len(placed) = 2
    /\ SlotOf(2) = 1
    /\ labels = <<LabelOf(1), LabelOf(2)>>
    /\ "size" \in drawn

\* C18: a rejected trial, whether the fitter found no room or the proposal
\* collided, leaves canvas, mask and labels as they were; the trial counter
\* advances by one (and the random stream by the draws made).
Rejected == pc = "trial" /\ pc' = "trial" /\ trial' = trial + 1

C18_RejectedTrialChangesNothing ==
    [][Rejected =>
            /\ UNCHANGED <<image, filled, labels, placed>>
            /\ UNCHANGED <<shape_idx, colors, num_shapes, warnings, err>>]_vars

\* A trial has been rejected in a slot that follows a committed shape.
C18_Witness ==
    /\ pc = "trial"
    /\ trial >= 1
    /\ Len(labels) >= 1
    /\ filled # {}
    /\ ~allow_overlap

\* C19: every slot gone through has produced exactly one outcome, a label or
\* a warning, so a returned run has len(labels) + warnings equal to the
\* shape count drawn; a warning is issued only by a slot whose num_trials
\* trials were all rejected.
C19_OneOutcomePerSlot ==
    /\ [](pc \in {"slot", "trial", "done"} => Len(labels) + warnings = shape_idx)
    /\ [](pc = "done" => Len(result[2]) + warnings = num_shapes)
    /\ [][warnings' # warnings =>
            /\ warnings' = warnings + 1
            /\ pc = "trial"
            /\ trial = num_trials
            /\ UNCHANGED labels]_vars

\* A returned run of two slots: the first committed, the second was
\* exhausted after MaxTrials rejections.
C19_Witness ==
    /\ pc = "done"
    /\ num_shapes = 2
    /\ num_trials = MaxTrials
    /\ warnings = 1
    /\ Len(result[2]) = 1
    /\ SlotOf(1) = 0

\* C20: once the canvas exists the mask is the union of the committed
\* pixel sets, every pixel outside the mask holds 255 in every channel, and
\* every pixel inside holds the colour of the last committed shape that
\* covers it.
LastCovering(p) == SetMax({i \in Committed : p \in PixelSet(i)})

C20_MaskIsUnionOfCommitted ==
    /\ filled = UNION {PixelSet(i) : i \in Committed}
    /\ DOMAIN image # {} =>
            \A p \in Pixels :
                IF p \in filled
                THEN image[p] = colors[SlotOf(LastCovering(p)) + 1]
                ELSE image[p] = [ch \in 1..num_channels |-> Background]

\* Before the return a later shape of another colour covers pixels of
\* an earlier one, on a canvas that keeps a background pixel.
C20_Witness ==
    /\ pc = "slot"
    /\ filled # Pixels
    /\ \E i, j \in Committed :
        /\ i < j
        /\ PixelSet(i) \cap PixelSet(j) # {}
        /\ colors[SlotOf(i) + 1] # colors[SlotOf(j) + 1]

=============================================================================
